---- MODULE Spec2Model ----
(***************************************************************************)
(* A model of Pinger3.py: the probe loop of run_ping, the checkpoint slot  *)
(* save_on_interrupt, the history file handled by save_results and         *)
(* load_history, main's save/compare/display sequence and the SIGINT       *)
(* handler, which CPython runs on the main thread between two bytecodes.   *)
(*                                                                         *)
(* Optional values (Python None) are sequences: <<>> is None, <<x>> is x.  *)
(* Floats are exact rationals <<numerator, denominator>> in lowest terms.  *)
(* At most one SIGINT is delivered in a run.                               *)
(***************************************************************************)
EXTENDS Integers, Sequences, FiniteSets, TLC

\* Largest bounded count, and the number of probes after which the model
\* stops following an unbounded run.
MaxProbes == 3

\* Round-trip times (ms) the transport can report.
Latencies == {10, 30}

\* Addresses gethostbyname can return.
Targets == {"A", "B"}

None == <<>>
Some(x) == <<x>>

----------------------------------------------------------------------------
(* Numbers *)

RECURSIVE GCD(_, _)
GCD(a, b) == IF b = 0 THEN a ELSE GCD(b, a % b)

\* The float n/d, d > 0, n >= 0.
Rat(n, d) == LET g == GCD(n, d) IN <<n \div g, d \div g>>

RatLeq(p, q) == p[1] * q[2] <= q[1] * p[2]

RECURSIVE SumSeq(_)
SumSeq(s) == IF s = <<>> THEN 0 ELSE Head(s) + SumSeq(Tail(s))

SeqMin(s) == CHOOSE x \in {s[i] : i \in DOMAIN s} : \A j \in DOMAIN s : x <= s[j]
SeqMax(s) == CHOOSE x \in {s[i] : i \in DOMAIN s} : \A j \in DOMAIN s : x >= s[j]

\* statistics.mean(times)
Mean(s) == Rat(SumSeq(s), Len(s))

----------------------------------------------------------------------------
(* Snapshots: the dict built by update_interim and as final_stats *)

\* A loss of 0 when nothing was sent.
LossPercentZero(sent_, lost_) == IF sent_ > 0 THEN Rat(lost_ * 100, sent_) ELSE <<0, 1>>

\* (lost / sent) * 100 if sent > 0 else 100
LossPercent(sent_, lost_) == IF sent_ > 0 THEN Rat(lost_ * 100, sent_) ELSE <<100, 1>>

\* 'received': sent - lost
Received(sent_, lost_) == sent_ - lost_

\* min and max taken for each other.
LatencyStatsSwapped(times_) ==
    IF times_ # <<>>
      THEN [min |-> Some(SeqMax(times_)), max |-> Some(SeqMin(times_)),
            avg |-> Mean(times_)]
      ELSE [min |-> None, max |-> None, avg |-> None]

\* if times: min/max/mean, else None for all three
LatencyStats(times_) ==
    IF times_ # <<>>
      THEN [min |-> Some(SeqMin(times_)), max |-> Some(SeqMax(times_)),
            avg |-> Mean(times_)]
      ELSE [min |-> None, max |-> None, avg |-> None]

MakeStats(target_, now_, sent_, lost_, times_) ==
    LET ls == LatencyStats(times_) IN
    [type |-> "object", target |-> target_, timestamp |-> now_,
     sent |-> sent_, received |-> Received(sent_, lost_),
     loss_percent |-> LossPercent(sent_, lost_),
     min |-> ls.min, max |-> ls.max, avg |-> ls.avg]

\* A JSON value that is not an object: a number, a string, null, a boolean.
Scalar(t) ==
    [type |-> t, target |-> "", timestamp |-> 0, sent |-> 0, received |-> 0,
     loss_percent |-> <<0, 1>>, min |-> None, max |-> None, avg |-> None]

ScalarTypes == {"number", "string", "null", "bool"}

----------------------------------------------------------------------------
(* The history file *)

\* What a path holds: nothing, text that json.load rejects (an empty file
\* included), a JSON array, or one JSON value that is not an array.
Absent == [kind |-> "absent", items |-> <<>>]
Malformed == [kind |-> "malformed", items |-> <<>>]
JsonList(items_) == [kind |-> "list", items |-> items_]
JsonValue(v) == [kind |-> "value", items |-> <<v>>]

\* The entries save_results reads before it appends.
ReadEntries(f) ==
    IF f.kind \in {"absent", "malformed"} THEN <<>> ELSE f.items

\* A save that puts the new entry first.
SaveResultsPrepend(s, f) == JsonList(<<s>> \o ReadEntries(f))

\* A save that forgets what the file held.
SaveResultsOverwrite(s, f) == JsonList(<<s>>)

\* save_results(stats, path), the whole call.
SaveResults(s, f) == JsonList(Append(ReadEntries(f), s))

\* A filter that returns the newest match first.
RECURSIVE FilterTargetNewestFirst(_, _)
FilterTargetNewestFirst(es, t) ==
    IF es = <<>> THEN <<>>
    ELSE IF Head(es).target = t
           THEN FilterTargetNewestFirst(Tail(es), t) \o <<Head(es)>>
    ELSE FilterTargetNewestFirst(Tail(es), t)

\* [e for e in entries if e.get('target') == target]
RECURSIVE FilterTarget(_, _)
FilterTarget(es, t) ==
    IF es = <<>> THEN <<>>
    ELSE IF Head(es).target = t THEN <<Head(es)>> \o FilterTarget(Tail(es), t)
    ELSE FilterTarget(Tail(es), t)

\* A load whose except clause misses json.JSONDecodeError.
LoadRaisesOnMalformed(f) ==
    \/ f.kind = "malformed"
    \/ /\ f.kind \in {"list", "value"}
       /\ \E i \in DOMAIN f.items : f.items[i].type # "object"

\* e.get('target') raises AttributeError on an element that is not a dict.
LoadRaises(f) ==
    /\ f.kind \in {"list", "value"}
    /\ \E i \in DOMAIN f.items : f.items[i].type # "object"

\* load_history(path, target) when it returns.
LoadHistory(f, t) ==
    IF f.kind \in {"absent", "malformed"} THEN <<>> ELSE FilterTarget(f.items, t)

----------------------------------------------------------------------------
(* State *)

VARIABLES
    pc,         \* where the main thread is; "exited" once the process is gone
    exitCode,   \* None while running, Some(status) after
    count,      \* args.count: None (continuous) or Some(n)
    samePath,   \* comp_path = save_path
    file,       \* what save_path holds
    comp,       \* what comp_path holds when it is another path
    dest,       \* the resolved address
    history,    \* load_history's result, also save_on_interrupt['history']
    stats,      \* save_on_interrupt['stats']
    sent, lost, times,  \* run_ping's counters
    result,     \* ping's return value: None on timeout, Some(ms) on reply
    probes,     \* loop iterations started, each one call of ping
    clock,      \* datetime.now()
    mainStats,  \* main's local stats
    entries,    \* save_results' local entries, in main's call
    wbuf,       \* main's open(path, 'w') buffer: "none", "empty", "partial", "full"
    errored,    \* main is in its except Exception branch
    sigAt,      \* pc at which SIGINT was delivered, "" if it was not
    writers,    \* who opened save_path for writing, in order
    output,     \* calls of print_comparison and print_current_results
    loadRaised, \* load_history raised out of main
    file0,      \* what save_path held when the run started
    loads,      \* calls of load_history so far
    calls       \* snapshots given to save_results when it is called on its own

vars == <<pc, exitCode, count, samePath, file, comp, dest, history, stats, sent,
          lost, times, result, probes, clock, mainStats, entries, wbuf, errored,
          sigAt, writers, output, loadRaised, file0, loads, calls>>

\* Entries of earlier runs.
hA == [type |-> "object", target |-> "A", timestamp |-> 0, sent |-> 2,
       received |-> 2, loss_percent |-> <<0, 1>>, min |-> Some(10),
       max |-> Some(30), avg |-> <<20, 1>>]
hB == [type |-> "object", target |-> "B", timestamp |-> 0, sent |-> 1,
       received |-> 0, loss_percent |-> <<100, 1>>, min |-> None,
       max |-> None, avg |-> None]

InitFiles ==
    {Absent, Malformed, JsonList(<<>>), JsonList(<<hA>>), JsonList(<<hB, hA>>),
     JsonValue(hA)} \cup {JsonValue(Scalar(t)) : t \in ScalarTypes}

\* Output files tried together with a separate comparison file.
OtherOutFiles == {Absent, JsonList(<<hB>>)}

Counts == {None} \cup {Some(n) : n \in 0..MaxProbes}

\* A run starts at the prompt when no target is on the command line.
Init ==
    /\ pc \in {"prompt", "resolve"}
    /\ exitCode = None
    /\ count \in Counts
    /\ samePath \in BOOLEAN
    /\ comp \in InitFiles
    /\ file \in (IF samePath THEN {comp} ELSE OtherOutFiles)
    /\ file0 = file
    /\ dest = ""
    /\ history = <<>>
    /\ stats = None
    /\ sent = 0 /\ lost = 0 /\ times = <<>>
    /\ result = None
    /\ probes = 0
    /\ clock = 1
    /\ mainStats = None
    /\ entries = <<>>
    /\ wbuf = "none"
    /\ errored = FALSE
    /\ sigAt = ""
    /\ writers = <<>>
    /\ output = <<>>
    /\ loadRaised = FALSE
    /\ loads = 0
    /\ calls = <<>>

----------------------------------------------------------------------------
(* main, up to the probe loop *)

Exit(code) == pc' = "exited" /\ exitCode' = Some(code)

\* input("Enter host to ping (or Enter to exit): ") returns nothing
PromptExit ==
    /\ pc = "prompt"
    /\ Exit(0)
    /\ UNCHANGED <<count, samePath, file, comp, dest, history, stats, sent,
                   lost, times, result, probes, clock, mainStats, entries, wbuf,
                   errored, sigAt, writers, output, loadRaised, file0, loads,
                   calls>>

\* a host is typed in
PromptTarget ==
    /\ pc = "prompt"
    /\ pc' = "resolve"
    /\ UNCHANGED <<exitCode, count, samePath, file, comp, dest, history, stats,
                   sent, lost, times, result, probes, clock, mainStats, entries,
                   wbuf, errored, sigAt, writers, output, loadRaised, file0,
                   loads, calls>>

ResolveOk ==
    /\ pc = "resolve"
    /\ \E t \in Targets : dest' = t
    /\ pc' = "load"
    /\ UNCHANGED <<exitCode, count, samePath, file, comp, history, stats, sent,
                   lost, times, result, probes, clock, mainStats, entries, wbuf,
                   errored, sigAt, writers, output, loadRaised, file0, loads,
                   calls>>

\* A resolution failure that ends the process with status 0.
ResolveFailExitZero ==
    /\ pc = "resolve"
    /\ Exit(0)
    /\ UNCHANGED <<count, samePath, file, comp, dest, history, stats, sent,
                   lost, times, result, probes, clock, mainStats, entries, wbuf,
                   errored, sigAt, writers, output, loadRaised, file0, loads,
                   calls>>

\* gethostbyname raises
ResolveFail ==
    /\ pc = "resolve"
    /\ Exit(1)
    /\ UNCHANGED <<count, samePath, file, comp, dest, history, stats, sent,
                   lost, times, result, probes, clock, mainStats, entries, wbuf,
                   errored, sigAt, writers, output, loadRaised, file0, loads,
                   calls>>

CompFile == IF samePath THEN file ELSE comp

Load ==
    /\ pc = "load"
    /\ loads' = loads + 1
    /\ IF LoadRaises(CompFile)
         THEN /\ Exit(1)
              /\ loadRaised' = TRUE
              /\ UNCHANGED history
         ELSE /\ history' = LoadHistory(CompFile, dest)
              /\ pc' = "loop"
              /\ UNCHANGED <<exitCode, loadRaised>>
    /\ UNCHANGED <<count, samePath, file, comp, dest, stats, sent, lost, times,
                   result, probes, clock, mainStats, entries, wbuf, errored,
                   sigAt, writers, output, file0, calls>>

----------------------------------------------------------------------------
(* run_ping *)

args == <<count, samePath, comp, file0, dest, history, loadRaised, loads, calls>>
counters == <<sent, lost, times>>
saving == <<mainStats, entries, wbuf, writers, output>>

\* A loop that runs range(count + 1).
IssueProbeOffByOne ==
    /\ pc = "loop"
    /\ IF count = None THEN TRUE ELSE probes <= count[1]
    /\ probes < MaxProbes + 1
    /\ probes' = probes + 1
    /\ pc' = "ping"
    /\ UNCHANGED <<args, counters, saving, exitCode, file, stats, result, clock,
                   errored, sigAt>>

\* The loop head: while True, or the next item of range(count).
IssueProbe ==
    /\ pc = "loop"
    /\ IF count = None THEN TRUE ELSE probes < count[1]
    /\ probes < MaxProbes
    /\ probes' = probes + 1
    /\ pc' = "ping"
    /\ UNCHANGED <<args, counters, saving, exitCode, file, stats, result, clock,
                   errored, sigAt>>

\* range(count) is exhausted.
LoopExhausted ==
    /\ pc = "loop"
    /\ IF count = None THEN FALSE ELSE probes >= count[1]
    /\ pc' = "final"
    /\ UNCHANGED <<args, counters, saving, exitCode, file, stats, result, probes,
                   clock, errored, sigAt>>

\* ping returns a round-trip time.
ProbeReply ==
    /\ pc = "ping"
    /\ \E ms \in Latencies : result' = Some(ms)
    /\ pc' = "record"
    /\ UNCHANGED <<args, counters, saving, exitCode, file, stats, probes, clock,
                   errored, sigAt>>

\* ping returns None.
ProbeTimeout ==
    /\ pc = "ping"
    /\ result' = None
    /\ pc' = "record"
    /\ UNCHANGED <<args, counters, saving, exitCode, file, stats, probes, clock,
                   errored, sigAt>>

\* ping raises: run_ping catches KeyboardInterrupt only, main catches Exception.
ProbeError ==
    /\ pc = "ping"
    /\ errored' = TRUE
    /\ pc' = "error"
    /\ UNCHANGED <<args, counters, saving, exitCode, file, stats, result, probes,
                   clock, sigAt>>

\* A loss counted for every probe.
RecordLostAlways(result_, lost_) == lost_ + 1

\* sent += 1, then lost += 1 or times.append(ms)
RecordLost(result_, lost_) == IF result_ = None THEN lost_ + 1 ELSE lost_
RecordTimes(result_, times_) ==
    IF result_ = None THEN times_ ELSE Append(times_, result_[1])

Record ==
    /\ pc = "record"
    /\ sent' = sent + 1
    /\ lost' = RecordLost(result, lost)
    /\ times' = RecordTimes(result, times)
    /\ pc' = "update"
    /\ UNCHANGED <<args, saving, exitCode, file, stats, result, probes, clock,
                   errored, sigAt>>

\* update_interim called in the reply branch only.
UpdateInterimOnReply ==
    /\ pc = "update"
    /\ IF result = None
         THEN UNCHANGED stats
         ELSE stats' = Some(MakeStats(dest, clock, sent, lost, times))
    /\ clock' = clock + 1
    /\ pc' = "sleep"
    /\ UNCHANGED <<args, counters, saving, exitCode, file, result, probes,
                   errored, sigAt>>

\* update_interim(): the dict is built, then stored in the slot
UpdateInterim ==
    /\ pc = "update"
    /\ stats' = Some(MakeStats(dest, clock, sent, lost, times))
    /\ clock' = clock + 1
    /\ pc' = "sleep"
    /\ UNCHANGED <<args, counters, saving, exitCode, file, result, probes,
                   errored, sigAt>>

\* time.sleep(1)
Sleep ==
    /\ pc = "sleep"
    /\ pc' = "loop"
    /\ UNCHANGED <<args, counters, saving, exitCode, file, stats, result, probes,
                   clock, errored, sigAt>>

\* A final snapshot that is returned but not stored in the slot.
FinalKeepsSlot ==
    /\ pc = "final"
    /\ mainStats' = Some(MakeStats(dest, clock, sent, lost, times))
    /\ clock' = clock + 1
    /\ pc' = "save_read"
    /\ UNCHANGED <<args, counters, entries, wbuf, writers, output, exitCode, file,
                   stats, result, probes, errored, sigAt>>

\* final_stats, stored in the slot and returned to main
Final ==
    /\ pc = "final"
    /\ LET fs == MakeStats(dest, clock, sent, lost, times) IN
         /\ stats' = Some(fs)
         /\ mainStats' = Some(fs)
    /\ clock' = clock + 1
    /\ pc' = "save_read"
    /\ UNCHANGED <<args, counters, entries, wbuf, writers, output, exitCode, file,
                   result, probes, errored, sigAt>>

----------------------------------------------------------------------------
(* main after run_ping: save_results, print_comparison, print_current_results *)

\* An except branch that exits without saving.
ErrorPathNoSave ==
    /\ pc = "error"
    /\ mainStats' = stats
    /\ Exit(1)
    /\ UNCHANGED <<args, counters, entries, wbuf, writers, output, file, stats,
                   result, probes, clock, errored, sigAt>>

\* except Exception: stats = save_on_interrupt.get('stats')
ErrorPath ==
    /\ pc = "error"
    /\ mainStats' = stats
    /\ IF stats # None
         THEN pc' = "save_read" /\ UNCHANGED exitCode
         ELSE Exit(1)
    /\ UNCHANGED <<args, counters, entries, wbuf, writers, output, file, stats,
                   result, probes, clock, errored, sigAt>>

\* save_results: json.load of the existing file, entries.append(stats)
SaveRead ==
    /\ pc = "save_read"
    /\ entries' = Append(ReadEntries(file), mainStats[1])
    /\ pc' = "save_open"
    /\ UNCHANGED <<args, counters, mainStats, wbuf, writers, output, exitCode,
                   file, stats, result, probes, clock, errored, sigAt>>

\* open(path, 'w') truncates the file
SaveOpen ==
    /\ pc = "save_open"
    /\ file' = Malformed
    /\ wbuf' = "empty"
    /\ writers' = Append(writers, "main")
    /\ pc' = "save_dump"
    /\ UNCHANGED <<args, counters, mainStats, entries, output, exitCode, stats,
                   result, probes, clock, errored, sigAt>>

\* json.dump writes the text to the file object piece by piece
SaveDumpPart ==
    /\ pc = "save_dump"
    /\ wbuf' = "partial"
    /\ pc' = "save_dump2"
    /\ UNCHANGED <<args, counters, mainStats, entries, writers, output, exitCode,
                   file, stats, result, probes, clock, errored, sigAt>>

SaveDumpRest ==
    /\ pc = "save_dump2"
    /\ wbuf' = "full"
    /\ pc' = "save_close"
    /\ UNCHANGED <<args, counters, mainStats, entries, writers, output, exitCode,
                   file, stats, result, probes, clock, errored, sigAt>>

\* leaving the with block closes the file, which flushes the buffer
SaveClose ==
    /\ pc = "save_close"
    /\ file' = JsonList(entries)
    /\ wbuf' = "none"
    /\ pc' = "compare"
    /\ UNCHANGED <<args, counters, mainStats, entries, writers, output, exitCode,
                   stats, result, probes, clock, errored, sigAt>>

\* Signed fractions, for the differences print_comparison takes.
Abs(n) == IF n < 0 THEN -n ELSE n
SignedRat(n, d) == LET g == GCD(Abs(n), d) IN <<n \div g, d \div g>>
RatSub(p, q) == SignedRat(p[1] * q[2] - q[1] * p[2], p[2] * q[2])

\* A number as the formats .2f and +.2f print it, in hundredths.
Fmt2(r) ==
    LET q == (2 * 100 * Abs(r[1]) + r[2]) \div (2 * r[2])
    IN  IF r[1] < 0 THEN -q ELSE q

\* stats.get(field): None, or the number as a fraction
GetField(s, field) ==
    CASE field = "loss_percent" -> Some(s.loss_percent)
      [] field = "min" -> IF s.min = None THEN None ELSE Some(<<s.min[1], 1>>)
      [] field = "max" -> IF s.max = None THEN None ELSE Some(<<s.max[1], 1>>)
      [] field = "avg" -> IF s.avg = None THEN None ELSE Some(s.avg)

CompareFields == <<"loss_percent", "min", "max", "avg">>

\* One printed line.
Line(kind_, idx_, field_, old_, cur_, diff_) ==
    [kind |-> kind_, idx |-> idx_, field |-> field_, old |-> old_, cur |-> cur_,
     diff |-> diff_]

\* A difference taken the wrong way round.
FieldDeltaReversed(cur_, old_) == RatSub(old_, cur_)

\* diff = cur - old
FieldDelta(cur_, old_) == RatSub(cur_, old_)

\* The line of one field of one earlier entry.
FieldLine(idx_, field_, current_, prev_) ==
    LET c == GetField(current_, field_)
        o == GetField(prev_, field_)
    IN  IF c = None \/ o = None
          THEN Line("nodata", idx_, field_, 0, 0, 0)
          ELSE Line("delta", idx_, field_, Fmt2(o[1]), Fmt2(c[1]),
                    Fmt2(FieldDelta(c[1], o[1])))

\* The header and the four field lines of the idx-th earlier entry.
EntryLines(idx_, current_, prev_) ==
    <<Line("header", idx_, "", prev_.timestamp, 0, 0)>>
    \o [k \in 1..Len(CompareFields) |->
          FieldLine(idx_, CompareFields[k], current_, prev_)]

RECURSIVE ComparisonLines(_, _, _)
ComparisonLines(idx_, current_, hist_) ==
    IF hist_ = <<>> THEN <<>>
    ELSE EntryLines(idx_, current_, Head(hist_))
         \o ComparisonLines(idx_ + 1, current_, Tail(hist_))

\* print_comparison(current, history): the lines it prints
PrintComparison(current_, hist_) ==
    IF hist_ = <<>>
      THEN <<Line("none", 0, "", 0, 0, 0)>>
      ELSE ComparisonLines(1, current_, hist_)

\* A call of print_comparison or print_current_results, with what the first
\* prints.
Shown(op_, cur_, hist_) ==
    [op |-> op_, cur |-> cur_, hist |-> hist_,
     lines |-> IF op_ = "compare" THEN PrintComparison(cur_, hist_) ELSE <<>>]

\* print_comparison(stats, history)
Compare ==
    /\ pc = "compare"
    /\ output' = Append(output, Shown("compare", mainStats[1], history))
    /\ pc' = "display"
    /\ UNCHANGED <<args, counters, mainStats, entries, wbuf, writers, exitCode,
                   file, stats, result, probes, clock, errored, sigAt>>

\* print_current_results(stats), then sys.exit(1) or the end of main
Display ==
    /\ pc = "display"
    /\ output' = Append(output, Shown("display", mainStats[1], <<>>))
    /\ Exit(IF errored THEN 1 ELSE 0)
    /\ UNCHANGED <<args, counters, mainStats, entries, wbuf, writers, file, stats,
                   result, probes, clock, errored, sigAt>>

----------------------------------------------------------------------------
(* SIGINT *)

\* What save_path holds once main's file object is closed by the SystemExit
\* that unwinds through the with block, after the handler wrote f: the buffered
\* text lands at offset 0, over what the handler wrote.
FlushOver(wbuf_, entries_, f) ==
    CASE wbuf_ = "full" -> {JsonList(entries_)}
      [] wbuf_ = "partial" ->
            IF f = JsonList(entries_) THEN {f} ELSE {f, Malformed}
      [] OTHER -> {f}

\* A handler that saves a snapshot it takes of the counters itself.
HandlerFileFromCounters(stats_, f) ==
    IF stats_ # None
      THEN SaveResults(MakeStats(dest, clock, sent, lost, times), f)
      ELSE f

\* sigint_handler: save, compare and display the slot's snapshot if there is
\* one, then sys.exit(0).
HandlerFile(stats_, f) == IF stats_ # None THEN SaveResults(stats_[1], f) ELSE f

\* A handler that reads the history again after it has saved.
HandlerOutputReload(stats_, out) ==
    IF stats_ # None
      THEN LET again == IF samePath
                          THEN LoadHistory(HandlerFile(stats_, file), dest)
                          ELSE history
           IN  out \o <<Shown("compare", stats_[1], again),
                         Shown("display", stats_[1], <<>>)>>
      ELSE out

\* print_comparison(current, save_on_interrupt['history']), then
\* print_current_results(current)
HandlerOutput(stats_, out) ==
    IF stats_ # None
      THEN out \o <<Shown("compare", stats_[1], history),
                    Shown("display", stats_[1], <<>>)>>
      ELSE out

\* A handler that ends the process with status 1.
InterruptExitOne ==
    /\ pc # "exited"
    /\ sigAt = ""
    /\ sigAt' = pc
    /\ file' \in FlushOver(wbuf, entries, HandlerFile(stats, file))
    /\ writers' = IF stats # None THEN Append(writers, "handler") ELSE writers
    /\ output' = HandlerOutput(stats, output)
    /\ wbuf' = "none"
    /\ Exit(1)
    /\ UNCHANGED <<args, counters, mainStats, entries, stats, result, probes,
                   clock, errored>>

\* SIGINT is delivered: the handler runs at once, whatever main is doing, and
\* its sys.exit(0) unwinds main.
Interrupt ==
    /\ pc # "exited"
    /\ sigAt = ""
    /\ sigAt' = pc
    /\ file' \in FlushOver(wbuf, entries, HandlerFile(stats, file))
    /\ writers' = IF stats # None THEN Append(writers, "handler") ELSE writers
    /\ output' = HandlerOutput(stats, output)
    /\ wbuf' = "none"
    /\ Exit(0)
    /\ UNCHANGED <<args, counters, mainStats, entries, stats, result, probes,
                   clock, errored>>

----------------------------------------------------------------------------

Next ==
    \/ PromptExit \/ PromptTarget
    \/ ResolveOk \/ ResolveFail \/ Load
    \/ IssueProbe \/ LoopExhausted
    \/ ProbeReply \/ ProbeTimeout \/ ProbeError
    \/ Record \/ UpdateInterim \/ Sleep \/ Final
    \/ ErrorPath
    \/ SaveRead \/ SaveOpen \/ SaveDumpPart \/ SaveDumpRest \/ SaveClose
    \/ Compare \/ Display
    \/ Interrupt

Spec == Init /\ [][Next]_vars

\* The interpreter keeps running the main thread; nothing forces a signal.
Main ==
    \/ PromptExit \/ PromptTarget
    \/ ResolveOk \/ ResolveFail \/ Load
    \/ IssueProbe \/ LoopExhausted
    \/ ProbeReply \/ ProbeTimeout \/ ProbeError
    \/ Record \/ UpdateInterim \/ Sleep \/ Final
    \/ ErrorPath
    \/ SaveRead \/ SaveOpen \/ SaveDumpPart \/ SaveDumpRest \/ SaveClose
    \/ Compare \/ Display

FairSpec == Spec /\ WF_vars(Main)

----------------------------------------------------------------------------
(* The history store and the comparator on their own: save_results,          *)
(* load_history and print_comparison called one after the other, with no     *)
(* signal, on a file that earlier calls have filled.                          *)

\* The most save_results calls that are followed.
MaxCalls == 3

\* Counters a snapshot given to save_results is made from.
SampleCounters ==
    {[sent |-> 0, lost |-> 0, times |-> <<>>],
     [sent |-> 5, lost |-> 2, times |-> <<10, 20, 30>>],
     [sent |-> 5, lost |-> 1, times |-> <<10, 10, 30, 30>>]}

SampleStats(t, now_) ==
    {MakeStats(t, now_, c.sent, c.lost, c.times) : c \in SampleCounters}

StoreInit ==
    /\ pc = "store"
    /\ exitCode = None
    /\ count = None
    /\ samePath = TRUE
    /\ comp \in InitFiles
    /\ file = comp
    /\ file0 = file
    /\ dest = ""
    /\ history = <<>>
    /\ stats = None
    /\ sent = 0 /\ lost = 0 /\ times = <<>>
    /\ result = None
    /\ probes = 0
    /\ clock = 1
    /\ mainStats = None
    /\ entries = <<>>
    /\ wbuf = "none"
    /\ errored = FALSE
    /\ sigAt = ""
    /\ writers = <<>>
    /\ output = <<>>
    /\ loadRaised = FALSE
    /\ loads = 0
    /\ calls = <<>>

\* save_results(stats, path)
StoreAppend ==
    /\ pc = "store"
    /\ Len(calls) < MaxCalls
    /\ \E t \in Targets : \E s \in SampleStats(t, clock) :
          /\ file' = SaveResults(s, file)
          /\ calls' = Append(calls, s)
    /\ clock' = clock + 1
    /\ UNCHANGED <<pc, exitCode, count, samePath, comp, dest, history, stats,
                   counters, result, probes, mainStats, entries, wbuf, errored,
                   sigAt, writers, output, loadRaised, file0, loads>>

\* load_history(path, target)
StoreLoad ==
    /\ pc = "store"
    /\ pc' = "loaded"
    /\ loads' = loads + 1
    /\ \E t \in Targets :
          /\ dest' = t
          /\ IF LoadRaises(file)
               THEN loadRaised' = TRUE /\ UNCHANGED history
               ELSE history' = LoadHistory(file, t) /\ UNCHANGED loadRaised
    /\ UNCHANGED <<exitCode, count, samePath, comp, file, stats, counters,
                   result, probes, clock, mainStats, entries, wbuf, errored,
                   sigAt, writers, output, file0, calls>>

\* print_comparison(current, history), current being a snapshot for the
\* target the history was loaded for
StoreCompare ==
    /\ pc = "loaded"
    /\ ~loadRaised
    /\ pc' = "compared"
    /\ \E cur \in SampleStats(dest, clock) :
          output' = Append(output, Shown("compare", cur, history))
    /\ UNCHANGED <<exitCode, count, samePath, comp, file, dest, history, stats,
                   counters, result, probes, clock, mainStats, entries, wbuf,
                   errored, sigAt, writers, loadRaised, file0, loads, calls>>

StoreNext == StoreAppend \/ StoreLoad \/ StoreCompare

StoreSpec == StoreInit /\ [][StoreNext]_vars

----------------------------------------------------------------------------
(* Properties *)

\* The entries the output file held before the run, as an appending save
\* keeps them.
PriorItems == IF file0.kind \in {"list", "value"} THEN file0.items ELSE <<>>

\* file is PriorItems followed by exactly the entry e.
AppendedOne(e) ==
    /\ file.kind = "list"
    /\ file.items = PriorItems \o <<e>>

LoopPcs == {"loop", "ping", "record", "update", "sleep"}

\* The snapshots of this run: the slot's, main's, and those written to the file.
RunSnapshots ==
    {stats[i] : i \in DOMAIN stats} \cup {mainStats[i] : i \in DOMAIN mainStats}
    \cup {file.items[i] : i \in {j \in DOMAIN file.items : file.items[j].timestamp >= 1}}

\* Checkpoints taken so far: at "update" the last recorded probe has none yet.
Checkpointed == IF pc = "update" \/ (pc = "exited" /\ sigAt = "update") THEN sent - 1 ELSE sent

\* C1: a SIGINT that arrives in the loop after the k-th probe was
\* checkpointed (k >= 1) and before the next one is, with count unbounded or
\* larger than k, makes the handler append exactly one entry, with sent = k,
\* and the process exits with status 0.
C1_InterruptAfterKth ==
    (/\ pc = "exited"
     /\ sigAt \in LoopPcs
     /\ Checkpointed >= 1
     /\ IF count = None THEN TRUE ELSE count[1] > Checkpointed)
    => /\ exitCode = Some(0)
       /\ writers = <<"handler">>
       /\ stats # None
       /\ stats[1].sent = Checkpointed
       /\ AppendedOne(stats[1])

C1_Witness ==
    /\ pc = "exited"
    /\ sigAt = "ping"
    /\ count = Some(3)
    /\ sent = 2
    /\ file0 = JsonList(<<hB, hA>>)
    /\ Len(file.items) = 3
    /\ file.items[3].sent = 2

\* C2: a run that resolved its target and holds a snapshot has written the
\* history file exactly once when it ends, wherever the SIGINT arrived.
C2_WrittenOnce ==
    (pc = "exited" /\ dest # "" /\ stats # None) => Len(writers) = 1

\* C3: when the run has ended, a list the output file held before the run is an
\* unchanged prefix of what it holds now.
C3_AppendOnly ==
    (pc = "exited" /\ file0.kind = "list")
    => /\ file.kind = "list"
       /\ Len(file.items) >= Len(file0.items)
       /\ SubSeq(file.items, 1, Len(file0.items)) = file0.items

\* C4: when ping raises on probe k+1 and no SIGINT arrives, no further probe is
\* issued; with a checkpoint (k >= 1) exactly that checkpoint, sent = k, is
\* appended, compared and displayed; without one the file is untouched; the
\* process exits with status 1.
C4_TransportError ==
    (errored /\ sigAt = "")
    => /\ probes = sent + 1
       /\ pc = "exited" =>
            /\ exitCode = Some(1)
            /\ IF sent >= 1
                 THEN /\ stats # None
                      /\ stats[1].sent = sent
                      /\ AppendedOne(stats[1])
                      /\ writers = <<"main">>
                      /\ output = <<Shown("compare", stats[1], history),
                                    Shown("display", stats[1], <<>>)>>
                 ELSE /\ file = file0
                      /\ writers = <<>>
                      /\ output = <<>>

C4_Witness ==
    /\ pc = "exited"
    /\ errored
    /\ sigAt = ""
    /\ sent = 2
    /\ probes = 3
    /\ exitCode = Some(1)
    /\ file0 = JsonList(<<hA>>)
    /\ Len(file.items) = 2

\* C5: after every recorded outcome the replies number sent - lost, between 0
\* and sent, and every snapshot of the run carries a received value between 0
\* and its sent value; the slot's snapshot, once the probe is checkpointed,
\* carries the loop's sent and received = sent - lost.
C5_ReceivedIsSentMinusLost ==
    /\ Len(times) = sent - lost
    /\ 0 <= sent - lost /\ sent - lost <= sent
    /\ \A s \in RunSnapshots : 0 <= s.received /\ s.received <= s.sent
    /\ (stats # None /\ Checkpointed = sent)
       => stats[1].sent = sent /\ stats[1].received = Len(times)
    /\ mainStats # None /\ ~errored
       => mainStats[1].sent = sent /\ mainStats[1].received = Len(times)

C5_Witness ==
    /\ pc = "sleep"
    /\ sent = 3 /\ lost = 2 /\ times = <<30>>
    /\ stats[1].received = 1

\* C6: in every snapshot loss_percent is 100 when sent = 0 and
\* 100 * (sent - received) / sent when sent > 0; it lies in [0, 100] and its
\* denominator is never 0.
C6_LossPercent ==
    \A s \in RunSnapshots :
        LET lp == s.loss_percent IN
        /\ lp[2] > 0
        /\ s.sent = 0 => lp = <<100, 1>>
        /\ s.sent > 0 => lp[1] * s.sent = 100 * (s.sent - s.received) * lp[2]
        /\ 0 <= lp[1] /\ lp[1] <= 100 * lp[2]

C6_Witness ==
    /\ pc = "exited"
    /\ count = Some(0)
    /\ sigAt = ""
    /\ file.kind = "list"
    /\ \E i \in DOMAIN file.items :
          /\ file.items[i].timestamp >= 1
          /\ file.items[i].sent = 0
          /\ file.items[i].loss_percent = <<100, 1>>

\* C7: in every snapshot min, max and avg are all present or all absent,
\* absent exactly when received = 0, and min <= avg <= max when present; the
\* slot's snapshot of the current counters has the smallest and the largest
\* recorded latency as min and max and their arithmetic mean as avg.
C7_LatencyStats ==
    /\ \A s \in RunSnapshots :
          /\ (s.min = None) = (s.max = None)
          /\ (s.min = None) = (s.avg = None)
          /\ (s.min = None) = (s.received = 0)
          /\ s.min # None =>
                /\ RatLeq(<<s.min[1], 1>>, s.avg)
                /\ RatLeq(s.avg, <<s.max[1], 1>>)
    /\ (stats # None /\ Checkpointed = sent /\ times # <<>>)
       => LET s == stats[1] IN
          /\ \E i \in DOMAIN times : times[i] = s.min[1]
          /\ \E i \in DOMAIN times : times[i] = s.max[1]
          /\ \A i \in DOMAIN times : s.min[1] <= times[i] /\ times[i] <= s.max[1]
          /\ s.avg[1] * Len(times) = SumSeq(times) * s.avg[2]

C7_Witness ==
    /\ pc = "sleep"
    /\ times = <<30, 10>>
    /\ lost = 1
    /\ stats[1].min = Some(10)
    /\ stats[1].max = Some(30)
    /\ stats[1].avg = <<20, 1>>

\* What holds of a bounded run that was neither interrupted nor failed.
C8_Returned ==
    (count # None /\ sigAt = "" /\ ~errored)
    => /\ probes <= count[1]
       /\ pc = "final" => probes = count[1]
       /\ mainStats # None =>
            /\ probes = count[1]
            /\ mainStats[1].sent = count[1]
            /\ count[1] = 0 =>
                 /\ mainStats[1].received = 0
                 /\ mainStats[1].loss_percent = <<100, 1>>
                 /\ mainStats[1].min = None
                 /\ mainStats[1].max = None
                 /\ mainStats[1].avg = None

\* C8: with a bounded count N, no SIGINT and no transport error, the loop
\* never issues more than N probes and the snapshot run_ping returns is taken
\* after exactly N probes with sent = N; for N = 0 it has received = 0,
\* loss_percent = 100 and no min, max, avg. With a bounded count the main
\* thread, kept running, gets out of the loop: run_ping returns or the
\* process ends.
C8_BoundedLoop ==
    /\ []C8_Returned
    /\ (count # None) => <>(mainStats # None \/ pc = "exited")

C8_Witness ==
    /\ pc = "exited"
    /\ count = Some(3)
    /\ sigAt = "" /\ ~errored
    /\ probes = 3
    /\ mainStats # None
    /\ mainStats[1].sent = 3
    /\ exitCode = Some(0)

\* C9: load_history does not raise for an absent file or for one json.load
\* rejects, and returns the empty list, whatever the target.
C9_LoadMissingOrMalformed ==
    (pc \notin {"resolve", "load"} /\ dest # "" /\ comp.kind \in {"absent", "malformed"})
    => ~loadRaised /\ history = <<>>

C9_Witness ==
    /\ pc = "loop"
    /\ comp = Malformed
    /\ samePath
    /\ dest = "B"
    /\ history = <<>>

\* C10: a file holding one JSON value that is not an array is read as a
\* one-element array: load_history returns, without raising, that element if
\* its target matches and nothing otherwise, and a save leaves the array of
\* the old value followed by the new snapshot.
C10_NonArrayAsOneElement ==
    /\ (pc \notin {"resolve", "load"} /\ dest # "" /\ comp.kind = "value")
       => /\ ~loadRaised
          /\ history = IF comp.items[1].type = "object" /\ comp.items[1].target = dest
                         THEN comp.items ELSE <<>>
    /\ (pc = "exited" /\ file0.kind = "value" /\ Len(writers) = 1 /\ sigAt = "")
       => file = JsonList(<<file0.items[1], mainStats[1]>>)

\* C11: save_results called on its own appends: after the calls so far the
\* file holds the list it held at first (nothing, if it was absent or
\* rejected by json.load) followed by the snapshots given, in call order; each
\* call adds its snapshot at the end and changes nothing before it.
C11_AppendMonotonic ==
    /\ Len(calls) >= 1 =>
          /\ file.kind = "list"
          /\ file0.kind = "list" => file.items = file0.items \o calls
          /\ file0.kind \in {"absent", "malformed"} => file.items = calls
    /\ \A i, j \in DOMAIN calls : i < j => calls[i] # calls[j]

C11_Witness ==
    /\ file0 = Absent
    /\ Len(calls) = 3
    /\ file = JsonList(calls)
    /\ calls[1].target = "B" /\ calls[3].target = "A"

\* The positions of es whose entry is for target t, and the k-th of them.
Matching(es, t) == {i \in DOMAIN es : es[i].target = t}
KthMatching(es, t, k) ==
    CHOOSE i \in Matching(es, t) : Cardinality({j \in Matching(es, t) : j <= i}) = k

\* C12: on a file holding a list of entries, load_history(path, target)
\* returns without raising the entries whose target is equal to the one asked
\* for, all of them and no other, in the order of the file.
C12_LoadFiltersByTarget ==
    (pc = "loaded" /\ file.kind = "list"
        /\ \A i \in DOMAIN file.items : file.items[i].type = "object")
    => /\ ~loadRaised
       /\ Len(history) = Cardinality(Matching(file.items, dest))
       /\ \A k \in DOMAIN history :
             history[k] = file.items[KthMatching(file.items, dest, k)]

C12_Witness ==
    /\ pc = "loaded"
    /\ dest = "A"
    /\ file0 = JsonList(<<hB, hA>>)
    /\ Len(calls) = 3
    /\ calls[1].target = "A" /\ calls[2].target = "B" /\ calls[3].target = "A"
    /\ history = <<hA, calls[1], calls[3]>>

\* The value of a field of a snapshot as a fraction; Absent when it is null.
FieldAbsent(s, f) ==
    IF f = "min" THEN s.min = <<>>
    ELSE IF f = "max" THEN s.max = <<>>
    ELSE IF f = "avg" THEN s.avg = <<>>
    ELSE FALSE
FieldFraction(s, f) ==
    IF f = "min" THEN <<s.min[1], 1>>
    ELSE IF f = "max" THEN <<s.max[1], 1>>
    ELSE IF f = "avg" THEN s.avg
    ELSE s.loss_percent

\* The printed hundredths h are the fraction cur - old, rounded to two decimals.
IsRoundedDelta(h, cur_, old_) ==
    LET n == cur_[1] * old_[2] - old_[1] * cur_[2]
        d == cur_[2] * old_[2]
    IN  2 * Abs(h * d - 100 * n) <= d

\* What a call of print_comparison must have printed.
ComparisonAsClaimed(o) ==
    IF o.hist = <<>>
      THEN Len(o.lines) = 1 /\ o.lines[1].kind = "none"
      ELSE
        /\ Len(o.lines) = 5 * Len(o.hist)
        /\ \A i \in DOMAIN o.hist :
              /\ o.lines[5 * (i - 1) + 1].kind = "header"
              /\ o.lines[5 * (i - 1) + 1].idx = i
              /\ o.lines[5 * (i - 1) + 1].old = o.hist[i].timestamp
              /\ \A k \in 1..4 :
                    LET l == o.lines[5 * (i - 1) + 1 + k]
                        f == <<"loss_percent", "min", "max", "avg">>[k]
                    IN  /\ l.field = f /\ l.idx = i
                        /\ IF FieldAbsent(o.cur, f) \/ FieldAbsent(o.hist[i], f)
                             THEN l.kind = "nodata"
                             ELSE /\ l.kind = "delta"
                                  /\ IsRoundedDelta(l.diff, FieldFraction(o.cur, f),
                                                    FieldFraction(o.hist[i], f))

\* C13: print_comparison prints one "no previous data" line and nothing else
\* for an empty history; otherwise, for each entry in loaded order and each of
\* loss_percent, min, max, avg in turn, the difference current - entry (to
\* two decimals) when both values are present and "no data available" when
\* either is absent.
C13_Comparison ==
    \A i \in DOMAIN output : output[i].op = "compare" => ComparisonAsClaimed(output[i])

\* Current loss 40 against an earlier loss 20 is reported as +20.00, after an
\* older entry without latencies, reported as no data.
C13_Witness ==
    /\ pc = "compared"
    /\ Len(output) = 1
    /\ output[1].cur.loss_percent = <<40, 1>>
    /\ Len(output[1].hist) = 2
    /\ output[1].hist[1].min = None
    /\ output[1].hist[2].loss_percent = <<20, 1>>
    /\ output[1].lines[3].kind = "nodata"
    /\ output[1].lines[7].kind = "delta"
    /\ output[1].lines[7].diff = 2000

\* A step in which gethostbyname fails: status 1, nothing probed, loaded or
\* written.
ResolutionFailureStep ==
    (pc = "resolve" /\ pc' = "exited" /\ sigAt' = "")
    => /\ exitCode' = Some(1)
       /\ probes' = 0
       /\ loads' = 0
       /\ writers' = <<>>
       /\ file' = file0

LoopPos == IF pc = "exited" THEN sigAt ELSE pc

\* C15: wherever the loop is when the handler reads the slot, the slot holds
\* a whole snapshot, the latest or the one before: it has the sent value of
\* the last checkpoint, which is the loop's sent counter or one less, received
\* between 0 and sent and at most one reply behind, and min, max, avg present
\* exactly when received > 0; it is absent only before the first checkpoint;
\* during the sleep it is the snapshot of the current counters; and what the
\* handler saves is that snapshot.
C15_SlotWhole ==
    LoopPos \in LoopPcs
    => /\ stats = None <=> Checkpointed = 0
       /\ stats # None =>
            LET s == stats[1] IN
            /\ s.sent = Checkpointed
            /\ s.sent \in {sent, sent - 1}
            /\ 0 <= s.received /\ s.received <= s.sent
            /\ s.received \in {Len(times), Len(times) - 1}
            /\ s.sent = sent => s.received = sent - lost
            /\ (s.min = None) = (s.received = 0)
            /\ (s.max = None) = (s.received = 0)
            /\ (s.avg = None) = (s.received = 0)
            /\ pc = "exited" => file.items[Len(file.items)] = s
       /\ LoopPos = "sleep" =>
            /\ stats # None
            /\ [stats[1] EXCEPT !.timestamp = 0] = MakeStats(dest, 0, sent, lost, times)

\* The handler took over between the second probe's return and its checkpoint
\* and saved the snapshot of the first probe.
C15_Witness ==
    /\ pc = "exited"
    /\ sigAt = "update"
    /\ sent = 2 /\ lost = 1 /\ times = <<30>>
    /\ stats[1].sent = 1
    /\ stats[1].received = 0
    /\ file.items[Len(file.items)] = stats[1]

\* Probes whose ping call has returned a reply or a timeout.
Completed == IF LoopPos = "ping" \/ errored THEN probes - 1 ELSE probes

\* C16 as stated: the handler reads an absent checkpoint only if no probe has
\* completed when the SIGINT arrives, and then saves nothing, leaves the file
\* as it was and exits with status 0.
C16_AbsentOnlyBeforeFirstProbe ==
    (pc = "exited" /\ sigAt # "" /\ stats = None)
    => /\ Completed = 0
       /\ file = file0 /\ writers = <<>> /\ output = <<>>
       /\ exitCode = Some(0)

\* C16, amended: the handler reads an absent checkpoint only if no checkpoint
\* update has finished when the SIGINT arrives (the first probe may have
\* returned and been recorded), and then saves nothing, leaves the file as it
\* was and exits with status 0; once a checkpoint update has finished it
\* reads a snapshot.
C16_AbsentOnlyBeforeFirstCheckpoint ==
    (pc = "exited" /\ sigAt # "")
    => /\ stats = None =>
            /\ Checkpointed = 0
            /\ file = file0 /\ writers = <<>> /\ output = <<>>
            /\ exitCode = Some(0)
       /\ Checkpointed >= 1 => stats # None /\ exitCode = Some(0)

C16_Witness ==
    /\ pc = "exited"
    /\ sigAt = "update"
    /\ probes = 1 /\ sent = 1
    /\ stats = None
    /\ file0 = JsonList(<<hA>>)
    /\ file = file0
    /\ exitCode = Some(0)

\* C17 as stated: the handler's save-and-exit starts at an iteration boundary
\* only, never with a probe in flight nor between a probe's return and its
\* checkpoint update.
C17_OnlyAtIterationBoundary ==
    (pc = "exited" /\ sigAt \in LoopPcs) => sigAt \in {"loop", "sleep"}

\* C17, amended: a SIGINT is acted on at once wherever the loop is, a probe in
\* flight or returned but not checkpointed included: in that very step the
\* process exits with status 0, nothing more is recorded, and what is saved
\* holds whole iterations only, the snapshot of the probes checkpointed
\* before the signal (nothing when there is none).
C17_ActedOnAtOnce ==
    [][(sigAt = "" /\ sigAt' # "" /\ pc \in LoopPcs)
       => /\ pc' = "exited" /\ exitCode' = Some(0)
          /\ sent' = sent /\ lost' = lost /\ times' = times /\ probes' = probes
          /\ IF Checkpointed = 0
               THEN file' = file /\ writers' = writers
               ELSE /\ file'.kind = "list"
                    /\ Len(file'.items) = Len(PriorItems) + 1
                    /\ file'.items[Len(file'.items)].sent = Checkpointed
                    /\ file'.items[Len(file'.items)].received
                          = Len(times) - (IF pc = "update" /\ result # None THEN 1 ELSE 0)
                    /\ writers' = <<"handler">>]_vars

\* The handler took over with the second probe in flight and saved the first.
C17_Witness ==
    /\ pc = "exited"
    /\ sigAt = "ping"
    /\ probes = 2 /\ sent = 1
    /\ exitCode = Some(0)
    /\ file.kind = "list"
    /\ file.items[Len(file.items)].sent = 1
    /\ file.items[Len(file.items)].timestamp >= 1

\* Two snapshots agree on every field but the timestamp.
AgreeButTimestamp(a, b) ==
    /\ a.target = b.target
    /\ a.sent = b.sent
    /\ a.received = b.received
    /\ a.loss_percent = b.loss_percent
    /\ a.min = b.min /\ a.max = b.max /\ a.avg = b.avg

\* C18: when the loop of a bounded run ends, the step that takes the final
\* snapshot leaves it in the slot and returns it; for N >= 1 it agrees with
\* the checkpoint the slot held, the last interim one, on target, sent,
\* received, loss_percent, min, max and avg; for N = 0 the slot was absent.
C18_FinalAgreesWithCheckpoint ==
    [][(pc = "final" /\ pc' # "exited")
       => /\ stats' # None
          /\ mainStats' = stats'
          /\ stats'[1].sent = count[1]
          /\ IF count[1] >= 1
               THEN stats # None /\ AgreeButTimestamp(stats[1], stats'[1])
               ELSE stats = None]_vars

C18_Witness ==
    /\ pc = "save_read"
    /\ ~errored
    /\ count = Some(2)
    /\ times = <<10>> /\ lost = 1
    /\ stats = mainStats
    /\ stats[1].timestamp = 3
    /\ stats[1].sent = 2

\* The entries the comparison file held before the run.
PreRunItems == IF comp.kind \in {"list", "value"} THEN comp.items ELSE <<>>

\* h is the entries of PreRunItems for the resolved address, in file order.
IsPreRunHistory(h) ==
    /\ Len(h) = Cardinality(Matching(PreRunItems, dest))
    /\ \A k \in DOMAIN h : h[k] = PreRunItems[KthMatching(PreRunItems, dest, k)]

\* C19: load_history is called at most once in a run, after the target is
\* resolved and before the first probe; every print_comparison of the run, by
\* main on completion or after a transport error and by the SIGINT handler,
\* is given what that call returned, the entries the comparison file held for
\* the target before the run, none of them a record of this run, also when
\* the comparison file is the output file.
C19_HistoryLoadedOnce ==
    /\ loads <= 1
    /\ loads = 1 => dest # ""
    /\ (probes >= 1 \/ output # <<>>) => loads = 1
    /\ \A i \in DOMAIN output :
          output[i].op = "compare" =>
             /\ output[i].hist = history
             /\ IsPreRunHistory(output[i].hist)
             /\ \A j \in DOMAIN output[i].hist : output[i].hist[j].timestamp = 0

\* The handler saved a record for A to the file it had loaded the history
\* from, and compared against the one earlier entry for A.
C19_Witness ==
    /\ pc = "exited"
    /\ sigAt = "sleep"
    /\ samePath
    /\ dest = "A"
    /\ comp = JsonList(<<hB, hA>>)
    /\ Len(file.items) = 3
    /\ file.items[3].target = "A"
    /\ Len(output) = 2
    /\ output[1].op = "compare"
    /\ output[1].hist = <<hA>>

====
